---- MODULE Spec2Model ----
(***************************************************************************)
(* Model of the self-update pipeline of upgrade-cli:                       *)
(*   src/upgrade.go                 upgrader.Upgrade, tryUnArchive, unTar,  *)
(*                                  unZip, unGz, unTarGz, replaceBinary     *)
(*   src/release/asset/download.go  downloader.DownloadAsset, downloadAsset *)
(*   src/unnamed/part_000           package checksum: Download,             *)
(*                                  downloadCheckSum, IsCheckSumValid       *)
(*                                                                         *)
(* A Go string is a sequence of tokens.  A token is a word without dots    *)
(* and slashes ("app", "tar", "linux"), or one of the separators ".", "/", *)
(* "_", "-", "*".  "app_linux_amd64.tar.gz" is                             *)
(*   <<"app","_","linux","_","amd64",".","tar",".","gz">>.                 *)
(* All string functions of the standard library that the code uses         *)
(* (HasSuffix, TrimSuffix, ToLower, filepath.Ext, filepath.Base) are       *)
(* computed on these sequences as the library computes them on bytes.      *)
(***************************************************************************)
EXTENDS Integers, Sequences, FiniteSets, TLC

(* ------------------------------------------------------------------ *)
(* Bounds of the model                                                  *)
(* ------------------------------------------------------------------ *)
\* the longest chain of extensions put after a file name ("x.tar.gz.zip" is 3)
MaxExts == 2
\* the longest asset list of a release
MaxAssets == 2
\* the longest entry list of an archive
MaxEntries == 3

(* ------------------------------------------------------------------ *)
(* strings                                                              *)
(* ------------------------------------------------------------------ *)
\* strings.ToLower on one token: the upper-case words of the model
LowerTok(t) ==
    CASE t = "APP"  -> "app"
      [] t = "TAR"  -> "tar"
      [] t = "GZ"   -> "gz"
      [] t = "AB12" -> "ab12"
      [] t = "CD34" -> "cd34"
      [] OTHER      -> t

\* strings.ToLower
ToLower(s) == [i \in 1..Len(s) |-> LowerTok(s[i])]

\* strings.HasSuffix
HasSuffix(s, suf) ==
    /\ Len(suf) <= Len(s)
    /\ SubSeq(s, Len(s) - Len(suf) + 1, Len(s)) = suf

\* strings.HasPrefix
HasPrefix(s, p) ==
    /\ Len(p) <= Len(s)
    /\ SubSeq(s, 1, Len(p)) = p

\* strings.TrimSuffix: s without the suffix, s itself when it does not end with it
TrimSuffix(s, suf) ==
    IF HasSuffix(s, suf) THEN SubSeq(s, 1, Len(s) - Len(suf)) ELSE s

\* os.IsPathSeparator
IsPathSeparator(t) == t = "/"

\* filepath.Ext: the suffix beginning at the final dot of the final element
\* of the path, empty when that element has no dot
RECURSIVE ExtFrom(_, _)
ExtFrom(path, i) ==
    IF i < 1 \/ IsPathSeparator(path[i]) THEN <<>>
    ELSE IF path[i] = "." THEN SubSeq(path, i, Len(path))
    ELSE ExtFrom(path, i - 1)

Ext(path) == ExtFrom(path, Len(path))

\* filepath.Base: the last element of the path, trailing separators removed
RECURSIVE StripTrailingSep(_)
StripTrailingSep(p) ==
    IF Len(p) > 0 /\ IsPathSeparator(p[Len(p)])
    THEN StripTrailingSep(SubSeq(p, 1, Len(p) - 1))
    ELSE p

RECURSIVE LastElemFrom(_, _)
LastElemFrom(p, i) ==
    IF i < 1 \/ IsPathSeparator(p[i]) THEN SubSeq(p, i + 1, Len(p))
    ELSE LastElemFrom(p, i - 1)

Base(path) ==
    IF path = <<>> THEN <<".">>
    ELSE LET p == StripTrailingSep(path) IN
         IF p = <<>> THEN <<"/">> ELSE LastElemFrom(p, Len(p))

\* the archive suffixes, in the order both loops try them
\* (download.go:77 and part_000:92)
ArchiveSuffixes ==
    << <<".", "tar", ".", "gz">>, <<".", "tar">>, <<".", "zip">>, <<".", "gz">> >>

(* ------------------------------------------------------------------ *)
(* package asset: the matcher of DownloadAsset                          *)
(* ------------------------------------------------------------------ *)
\* the inner loop of download.go:76-84 without its break: every suffix of
\* the list is trimmed from what the previous left
RECURSIVE StripLoopNoBreak(_, _)
StripLoopNoBreak(u, i) ==
    IF i > Len(ArchiveSuffixes) THEN [ar |-> <<>>, u |-> u]
    ELSE LET s == ArchiveSuffixes[i]
             t == TrimSuffix(u, s)
         IN IF t # u
            THEN LET rest == StripLoopNoBreak(t, i + 1) IN
                 [ar |-> IF rest.ar # <<>> THEN rest.ar ELSE s, u |-> rest.u]
            ELSE StripLoopNoBreak(u, i + 1)

\* download.go:76-84: the inner loop.  [ar, u] after trying the suffixes
\* from index i on: the first suffix that trims something is recorded and
\* the loop breaks.
RECURSIVE StripLoop(_, _)
StripLoop(u, i) ==
    IF i > Len(ArchiveSuffixes) THEN [ar |-> <<>>, u |-> u]
    ELSE LET s == ArchiveSuffixes[i]
             t == TrimSuffix(u, s)
         IN IF t # u THEN [ar |-> s, u |-> t] ELSE StripLoop(u, i + 1)

\* download.go:70
PlatformSuffix(os, arch) == os \o <<"_">> \o arch

\* download.go:71-97: the index of the asset DownloadAsset downloads and the
\* archive suffix it found, idx = 0 when the loop runs off the list
RECURSIVE MatchFrom(_, _, _)
MatchFrom(assets, suffix, i) ==
    IF i > Len(assets) THEN [idx |-> 0, ar |-> <<>>]
    ELSE LET r == StripLoop(ToLower(assets[i]), 1) IN
         IF HasSuffix(r.u, suffix) THEN [idx |-> i, ar |-> r.ar]
         ELSE MatchFrom(assets, suffix, i + 1)

(* ------------------------------------------------------------------ *)
(* package checksum: manifest keys and the validator                    *)
(* ------------------------------------------------------------------ *)
\* part_000:91-94: the key of a manifest line.  The loop has no break: every
\* suffix of the list is trimmed, in order, from what the previous left.
RECURSIVE KeyLoop(_, _)
KeyLoop(k, i) ==
    IF i > Len(ArchiveSuffixes) THEN k
    ELSE KeyLoop(TrimSuffix(k, ArchiveSuffixes[i]), i + 1)

ManifestKey(filename) == KeyLoop(ToLower(filename), 1)

\* part_000:140
ValidatorKey(binary, os, arch) == binary \o <<"_">> \o os \o <<"_">> \o arch

\* part_000:138-146.  checksums is the map of Info (a function on its keys).
IsCheckSumValid(binary, os, arch, checksums, downloadedChecksum) ==
    LET key == ValidatorKey(binary, os, arch) IN
    IF key \notin DOMAIN checksums THEN FALSE
    ELSE checksums[key] = downloadedChecksum

(* ------------------------------------------------------------------ *)
(* errors, file contents, the file system                               *)
(* ------------------------------------------------------------------ *)
\* a Go error: its kind (the sentinel or the message) and the strings the
\* message names; NoErr is nil
Err(kind, detail) == [kind |-> kind, detail |-> detail]
NoErr == Err("", <<>>)

\* the bytes of a file or of a response body: the container layers around it,
\* outermost first ("gz", "tar", "zip"), the entries of the innermost tar or
\* zip, and the identity of the bytes
Content(layers, entries, id) == [layers |-> layers, entries |-> entries, id |-> id]
Binary(id) == Content(<<>>, <<>>, id)

\* an entry of a tar or zip archive: tar.Header.Name / zip.File.Name, the
\* type (tar.TypeReg is "reg"; a directory is "dir"), the bytes
Entry(name, typeflag, data) == [Name |-> name, Typeflag |-> typeflag, data |-> data]

\* hex.EncodeToString(sha256(bytes)): lower-case hex, one digest per identity
Sha256Hex(c) ==
    CASE c.id = "bin2" -> <<"ab12">>
      [] c.id = "tgz2" -> <<"cd34">>
      [] OTHER         -> <<c.id>>

\* os.TempDir()
TempDir == <<"/", "tmp">>

\* os.CreateTemp's prefixAndSuffix: a pattern holding a path separator is an
\* error ("pattern contains path separator")
PatternHasSeparator(pattern) == \E i \in 1..Len(pattern) : IsPathSeparator(pattern[i])

\* the position of the last "*" of the pattern, 0 when it has none
LastStar(pattern) ==
    LET S == {i \in 1..Len(pattern) : pattern[i] = "*"} IN
    IF S = {} THEN 0 ELSE CHOOSE i \in S : \A j \in S : j <= i

\* the random strings os.CreateTemp may draw
RandomTokens == <<"r1", "r2", "r3">>

\* the name os.CreateTemp gives: dir/prefix<random>suffix, the random string
\* replacing the last "*" or put at the end; the first one not yet in use
TempName(fs, pattern) ==
    LET k    == LastStar(pattern)
        pre  == IF k = 0 THEN pattern ELSE SubSeq(pattern, 1, k - 1)
        suf  == IF k = 0 THEN <<>> ELSE SubSeq(pattern, k + 1, Len(pattern))
        name(i) == TempDir \o <<"/">> \o pre \o <<RandomTokens[i]>> \o suf
        free == {i \in 1..Len(RandomTokens) : name(i) \notin DOMAIN fs}
    IN name(CHOOSE i \in free : \A j \in free : i <= j)

\* os.CreateTemp("", pattern): [name, err, fs].  ok is what the operating
\* system answers when the pattern is accepted.
CreateTemp(fs, pattern, ok) ==
    IF PatternHasSeparator(pattern)
    THEN [name |-> <<>>, err |-> Err("pattern contains path separator", pattern), fs |-> fs]
    ELSE IF ~ok THEN [name |-> <<>>, err |-> Err("createtemp", pattern), fs |-> fs]
    ELSE LET n == TempName(fs, pattern) IN
         [name |-> n, err |-> NoErr,
          fs |-> [p \in DOMAIN fs \cup {n} |-> IF p = n THEN Binary("empty") ELSE fs[p]]]

\* os.Remove: the file is gone afterwards (removing a missing file is an
\* error the callers ignore)
Remove(fs, path) == [p \in DOMAIN fs \ {path} |-> fs[p]]

\* writing bytes to an existing file
WriteFile(fs, path, c) == [fs EXCEPT ![path] = c]

(* ------------------------------------------------------------------ *)
(* package asset: downloadAsset and DownloadAsset                       *)
(* ------------------------------------------------------------------ *)
\* what the release publisher serves at an asset URL: an archive of the kind
\* the URL's suffix announces, holding the new binary among other files, or
\* the new binary itself; env.tamper: other bytes are served instead
PublishedEntries ==
    << Entry(<<"README">>, "reg", "readme"), Entry(<<"app">>, "reg", "bin2") >>

PublishedBody(url) ==
    LET ar == StripLoop(ToLower(url), 1).ar IN
    CASE ar = <<".", "tar", ".", "gz">> -> Content(<<"gz", "tar">>, PublishedEntries, "tgz2")
      [] ar = <<".", "tar">>             -> Content(<<"tar">>, PublishedEntries, "tar2")
      [] ar = <<".", "zip">>             -> Content(<<"zip">>, PublishedEntries, "zip2")
      [] ar = <<".", "gz">>              -> Content(<<"gz">>, <<>>, "gz2")
      [] OTHER                           -> Binary("bin2")

ServedBody(url, env) == IF env.tamper THEN Binary("junk") ELSE PublishedBody(url)

\* asset.Info; NilInfo stands for the nil pointer
AssetInfo(sum, path, platform, ar) ==
    [Checksum |-> sum, DownloadedBinaryFilePath |-> path,
     PlatformSuffix |-> platform, ArSuffix |-> ar]
NilInfo == AssetInfo(<<>>, <<>>, <<>>, <<>>)

\* what a call of downloadAsset / DownloadAsset gives back: info, cleanup (the
\* path the cleanup function removes, <<>> for a nil function), err, the file
\* system afterwards, the URLs requested
DlResult(info, cleanup, err, fs, requests) ==
    [info |-> info, cleanup |-> cleanup, err |-> err, fs |-> fs, requests |-> requests]

\* downloadAsset without the cleanupFn() of download.go:134: a failed copy
\* leaves the partly written file
downloadAssetKeepPartial(executablePath, url, env, fs) ==
    LET executable == Base(executablePath) IN
    IF ~env.do THEN DlResult(NilInfo, <<>>, Err("http", url), fs, <<url>>)
    ELSE LET t == CreateTemp(fs, executable, env.createTemp) IN
    IF t.err # NoErr THEN DlResult(NilInfo, <<>>, t.err, fs, <<url>>)
    ELSE IF ~env.copy
    THEN DlResult(NilInfo, <<>>, Err("copy", url),
                  WriteFile(t.fs, t.name, Binary("partial")), <<url>>)
    ELSE LET written == WriteFile(t.fs, t.name, ServedBody(url, env)) IN
    IF ~env.chmod
    THEN DlResult(NilInfo, <<>>, Err("chmod", t.name), Remove(written, t.name), <<url>>)
    ELSE DlResult(AssetInfo(Sha256Hex(ServedBody(url, env)), t.name, <<>>, <<>>),
                  t.name, NoErr, written, <<url>>)

\* download.go:101-148.  env holds what the world answers: do (the request
\* succeeds), tamper (see ServedBody), createTemp, copy, chmod.
downloadAsset(executablePath, url, env, fs) ==
    LET executable == Base(executablePath) IN
    IF ~env.do THEN DlResult(NilInfo, <<>>, Err("http", url), fs, <<url>>)
    ELSE LET t == CreateTemp(fs, executable, env.createTemp) IN
    IF t.err # NoErr THEN DlResult(NilInfo, <<>>, t.err, fs, <<url>>)
    ELSE IF ~env.copy
    THEN \* cleanupFn() removes the partly written file
         DlResult(NilInfo, <<>>, Err("copy", url), Remove(t.fs, t.name), <<url>>)
    ELSE LET written == WriteFile(t.fs, t.name, ServedBody(url, env)) IN
    IF ~env.chmod
    THEN DlResult(NilInfo, <<>>, Err("chmod", t.name), Remove(written, t.name), <<url>>)
    ELSE DlResult(AssetInfo(Sha256Hex(ServedBody(url, env)), t.name, <<>>, <<>>),
                  t.name, NoErr, written, <<url>>)

\* download.go:68-99.  d is the downloader: os, arch, executablePath.
DownloadAsset(d, assets, env, fs) ==
    LET suffix == PlatformSuffix(d.os, d.arch)
        m      == MatchFrom(assets, suffix, 1)
    IN IF m.idx = 0
       THEN DlResult(NilInfo, <<>>, Err("ErrNoAsset", d.os \o d.arch), fs, <<>>)
       ELSE LET r == downloadAsset(d.executablePath, assets[m.idx], env, fs) IN
            IF r.err # NoErr THEN DlResult(NilInfo, <<>>, r.err, r.fs, r.requests)
            ELSE DlResult(AssetInfo(r.info.Checksum, r.info.DownloadedBinaryFilePath,
                                    suffix, m.ar),
                          r.cleanup, NoErr, r.fs, r.requests)

(* ------------------------------------------------------------------ *)
(* package checksum: Download and downloadCheckSum                      *)
(* ------------------------------------------------------------------ *)
\* part_000:38
DefaultAssetSuffix == <<"checksums", ".", "txt">>

\* checksum.Info.Checksums; the empty function is the empty map
EmptyMap == [k \in {} |-> <<>>]
Put(m, k, v) == [x \in DOMAIN m \cup {k} |-> IF x = k THEN v ELSE m[x]]

\* part_000:81-96: the scan loop from line i on.  A body is the sequence of
\* its lines, a line the sequence of its fields (strings.Fields of the
\* trimmed line).
RECURSIVE ScanLines(_, _, _)
ScanLines(body, i, checksums) ==
    IF i > Len(body) THEN [checksums |-> checksums, err |-> NoErr]
    ELSE LET parts == body[i] IN
         IF Len(parts) # 2
         THEN [checksums |-> EmptyMap, err |-> Err("ErrInvalidChecksumFile", <<"malformed">>)]
         ELSE ScanLines(body, i + 1,
                        Put(checksums, ManifestKey(parts[2]), ToLower(parts[1])))

\* part_000:64-102.  env: do (the request succeeds), manifest (the body).
downloadCheckSum(url, env) ==
    IF ~env.do THEN [checksums |-> EmptyMap, err |-> Err("http", url)]
    ELSE LET r == ScanLines(env.manifest, 1, EmptyMap) IN
         IF r.err # NoErr THEN r
         ELSE IF DOMAIN r.checksums = {}
         THEN [checksums |-> EmptyMap, err |-> Err("ErrInvalidChecksumFile", <<"empty">>)]
         ELSE r

\* part_000:48-60
RECURSIVE ChecksumAssetFrom(_, _, _)
ChecksumAssetFrom(assets, assetSuffix, i) ==
    IF i > Len(assets) THEN 0
    ELSE IF HasSuffix(assets[i], assetSuffix) THEN i
    ELSE ChecksumAssetFrom(assets, assetSuffix, i + 1)

Download(assetSuffix, assets, env) ==
    LET i == ChecksumAssetFrom(assets, assetSuffix, 1) IN
    IF i = 0 THEN [checksums |-> EmptyMap, err |-> Err("ErrNoCheckSumAsset", <<>>)]
    ELSE downloadCheckSum(assets[i], env)

(* ------------------------------------------------------------------ *)
(* upgrade.go: the extractors                                           *)
(* ------------------------------------------------------------------ *)
\* what an extractor gives back: the path of the extracted file, err, the
\* file system afterwards, the extractors entered (outermost first) and the
\* archive entry copied (0 when none was)
ExResult(path, err, fs, route, picked) ==
    [path |-> path, err |-> err, fs |-> fs, route |-> route, picked |-> picked]

\* upgrade.go:187, 238, 267: the pattern "/tmp/"+prefix+"-*"
ExtractPattern(prefix) == <<"/", "tmp", "/">> \o prefix \o <<"-", "*">>

\* gzip.NewReader succeeds on a gzip stream only
IsGzip(c) == Len(c.layers) > 0 /\ Head(c.layers) = "gz"
Gunzip(c) == Content(Tail(c.layers), c.entries, c.id)
\* tar.Reader.Next succeeds on a tar stream only
IsTar(c) == c.layers = <<"tar">>
IsZip(c) == c.layers = <<"zip">>

\* upgrade.go:193-217: the loop of unTar from entry i on, out being the temp
\* file already created.  env.copy: io.Copy succeeds; env.chmod: os.Chmod does.
RECURSIVE TarScan(_, _, _, _, _, _)
TarScan(prefix, c, i, out, fs, env) ==
    IF ~IsTar(c)
    THEN ExResult(<<>>, Err("failed to read next header", <<>>), fs, <<"unTar">>, 0)
    ELSE IF i > Len(c.entries)
    THEN ExResult(<<>>, Err("file not found in archive", <<>>), fs, <<"unTar">>, 0)
    ELSE LET hdr == c.entries[i] IN
         IF hdr.Typeflag # "reg" THEN TarScan(prefix, c, i + 1, out, fs, env)
         ELSE IF ~HasPrefix(Base(hdr.Name), prefix)
         THEN TarScan(prefix, c, i + 1, out, fs, env)
         ELSE IF ~env.copy
         THEN ExResult(<<>>, Err("failed to copy file", <<>>),
                       WriteFile(fs, out, Binary("partial")), <<"unTar">>, i)
         ELSE LET written == WriteFile(fs, out, Binary(hdr.data)) IN
              IF ~env.chmod
              THEN ExResult(<<>>, Err("failed to change file permissions", <<>>),
                            written, <<"unTar">>, i)
              ELSE ExResult(out, NoErr, written, <<"unTar">>, i)

\* upgrade.go:185-220.  r is the stream read (a Content).
unTar(prefix, r, fs, env) ==
    LET t == CreateTemp(fs, ExtractPattern(prefix), env.createTemp) IN
    IF t.err # NoErr
    THEN ExResult(<<>>, Err("failed to create temp file", t.err.detail), fs, <<"unTar">>, 0)
    ELSE TarScan(prefix, r, 1, t.name, t.fs, env)

\* upgrade.go:175-182
unTarGz(prefix, r, fs, env) ==
    IF ~IsGzip(r)
    THEN ExResult(<<>>, Err("failed to create gzip reader", <<>>), fs, <<"unTarGz">>, 0)
    ELSE LET x == unTar(prefix, Gunzip(r), fs, env) IN
         ExResult(x.path, x.err, x.fs, <<"unTarGz">> \o x.route, x.picked)

\* zip.NewReader(r, size): the archive's directory is looked for in the last
\* size bytes, so no archive is found in 0 bytes
ZipNewReaderOk(r, size) == IsZip(r) /\ size # 0

\* upgrade.go:228-253: the loop of unZip from file i on
RECURSIVE ZipScan(_, _, _, _, _)
ZipScan(prefix, c, i, fs, env) ==
    IF i > Len(c.entries)
    THEN ExResult(<<>>, Err("no file found with prefix", prefix), fs, <<"unZip">>, 0)
    ELSE LET f == c.entries[i] IN
         IF ~HasPrefix(Base(f.Name), prefix) THEN ZipScan(prefix, c, i + 1, fs, env)
         ELSE LET t == CreateTemp(fs, ExtractPattern(prefix), env.createTemp) IN
              IF t.err # NoErr
              THEN ExResult(<<>>, Err("failed to create temp file", t.err.detail),
                            fs, <<"unZip">>, i)
              ELSE IF ~env.copy
              THEN ExResult(<<>>, Err("failed to copy file", <<>>),
                            WriteFile(t.fs, t.name, Binary("partial")), <<"unZip">>, i)
              ELSE LET written == WriteFile(t.fs, t.name, Binary(f.data)) IN
                   IF ~env.chmod
                   THEN ExResult(<<>>, Err("failed to change file permissions", <<>>),
                                 written, <<"unZip">>, i)
                   ELSE ExResult(t.name, NoErr, written, <<"unZip">>, i)

\* upgrade.go:223-256; line 224 passes the size 0
unZip(prefix, r, fs, env) ==
    IF ~ZipNewReaderOk(r, 0)
    THEN ExResult(<<>>, Err("failed to create zip reader", <<>>), fs, <<"unZip">>, 0)
    ELSE ZipScan(prefix, r, 1, fs, env)

\* upgrade.go:260-282
unGz(prefix, r, fs, env) ==
    IF ~IsGzip(r)
    THEN ExResult(<<>>, Err("failed to create gzip reader", <<>>), fs, <<"unGz">>, 0)
    ELSE LET t == CreateTemp(fs, ExtractPattern(prefix), env.createTemp) IN
         IF t.err # NoErr
         THEN ExResult(<<>>, Err("failed to create temp file", t.err.detail),
                       fs, <<"unGz">>, 0)
         ELSE IF ~env.copy
         THEN ExResult(<<>>, Err("failed to copy file", <<>>),
                       WriteFile(t.fs, t.name, Binary("partial")), <<"unGz">>, 0)
         ELSE LET written == WriteFile(t.fs, t.name, Gunzip(r)) IN
              IF ~env.chmod
              THEN ExResult(<<>>, Err("failed to change file permissions", <<>>),
                            written, <<"unGz">>, 0)
              ELSE ExResult(t.name, NoErr, written, <<"unGz">>, 0)

\* upgrade.go:153-172
tryUnArchive(prefix, arPath, fs, env) ==
    IF arPath \notin DOMAIN fs
    THEN ExResult(<<>>, Err("failed to open file", arPath), fs, <<>>, 0)
    ELSE LET f == fs[arPath]
             e == Ext(arPath)
         IN CASE e = <<".", "tar", ".", "gz">> -> unTarGz(prefix, f, fs, env)
              [] e = <<".", "zip">>             -> unZip(prefix, f, fs, env)
              [] e = <<".", "tar">>             -> unTar(prefix, f, fs, env)
              [] e = <<".", "gz">>              -> unGz(prefix, f, fs, env)
              [] e = <<>>                       -> ExResult(arPath, NoErr, fs, <<>>, 0)
              [] OTHER -> ExResult(<<>>, Err("unsupported file type", e), fs, <<>>, 0)

\* a replace that copies instead of renaming: a failure leaves the target
\* partly written
replaceBinaryCopyFallback(tmpFilePath, currentBinaryPath, fs, ok) ==
    IF tmpFilePath \notin DOMAIN fs
    THEN [err |-> Err("failed to replace binary", tmpFilePath), fs |-> fs]
    ELSE IF ~ok
    THEN [err |-> Err("failed to replace binary", tmpFilePath),
          fs  |-> [p \in DOMAIN fs \cup {currentBinaryPath} |->
                      IF p = currentBinaryPath THEN Binary("partial") ELSE fs[p]]]
    ELSE [err |-> NoErr,
          fs  |-> [p \in (DOMAIN fs \cup {currentBinaryPath}) \ {tmpFilePath} |->
                      IF p = currentBinaryPath THEN fs[tmpFilePath] ELSE fs[p]]]

\* upgrade.go:285-292: os.Rename moves the file onto the target in one step
\* or fails and changes nothing.  ok: what the operating system answers.
replaceBinary(tmpFilePath, currentBinaryPath, fs, ok) ==
    IF ~ok \/ tmpFilePath \notin DOMAIN fs
    THEN [err |-> Err("failed to replace binary", tmpFilePath), fs |-> fs]
    ELSE [err |-> NoErr,
          fs  |-> [p \in (DOMAIN fs \cup {currentBinaryPath}) \ {tmpFilePath} |->
                      IF p = currentBinaryPath THEN fs[tmpFilePath] ELSE fs[p]]]

(* ------------------------------------------------------------------ *)
(* upgrade.go: upgrader.Upgrade as a state machine                      *)
(* ------------------------------------------------------------------ *)
VARIABLES
    pc,             \* the position of Upgrade: the step it is about to take
    executablePath, \* upgrader.executablePath
    currentVersion, \* the argument of Upgrade
    curr,           \* version.NewVersion(currentVersion), 0 before it is parsed
    latest,         \* version.NewVersion(releaseInfo.TagName), 0 before
    releaseInfo,    \* what GetLatestRelease returned
    downloadInfo,   \* what DownloadAsset returned
    cleanup,        \* the path the deferred cleanup removes, <<>> when none
    checksumInfo,   \* the map of the manifest
    valid,          \* what IsCheckSumValid returned: "none" before it is asked
    tempFile,       \* what tryUnArchive returned, deferred for removal
    fs,             \* the files: the executable and the temp directory
    calls,          \* the collaborators and helpers called so far, in order
    route,          \* the extractors tryUnArchive entered
    created,        \* the temp files that existed after some step
    err,            \* what Upgrade returns
    call            \* the last call of a library function (specification SpecFn)

vars == <<pc, executablePath, currentVersion, curr, latest, releaseInfo,
          downloadInfo, cleanup, checksumInfo, valid, tempFile, fs, calls,
          route, created, err, call>>

\* version.NewVersion (github.com/hashicorp/go-version): the version strings
\* of the model and their order; "junk" does not parse
VersionStrings == {"junk", "1.0", "2.0", "3.0"}
NewVersion(s) ==
    CASE s = "1.0" -> 1
      [] s = "2.0" -> 2
      [] s = "3.0" -> 3
      [] OTHER     -> 0
ParseFails(s) == NewVersion(s) = 0

\* the gate with LessThan in place of LessThanOrEqual
NoUpgradeNeededStrict(l, c) == l < c

\* upgrade.go:112: latest.LessThanOrEqual(curr)
NoUpgradeNeeded(l, c) == l <= c

\* runtime.GOOS and runtime.GOARCH of the build
GOOS == <<"linux">>
GOARCH == <<"amd64">>

\* the executables upgraded
ExecutablePaths == { <<"/", "usr", "/", "app">>, <<"/", "usr", "/", "app", ".", "exe">> }

\* the asset URLs of the releases
AssetURLs ==
    { <<"app", "_", "linux", "_", "amd64">>,
      <<"app", "_", "linux", "_", "amd64", ".", "tar", ".", "gz">>,
      <<"app", "_", "darwin", "_", "arm64", ".", "zip">>,
      <<"checksums", ".", "txt">> }

RECURSIVE SeqsUpTo(_, _)
SeqsUpTo(S, n) ==
    IF n = 0 THEN { <<>> }
    ELSE LET shorter == SeqsUpTo(S, n - 1) IN
         shorter \cup { Append(q, x) : q \in shorter, x \in S }

Releases ==
    [TagName : VersionStrings, Assets : SeqsUpTo(AssetURLs, MaxAssets)]
NilRelease == [TagName |-> "", Assets |-> <<>>]

\* the manifests served: lines of fields
ManifestBodies ==
    { <<>>,
      << << <<"ab12">> >> >>,
      << << <<"AB12">>, <<"app", "_", "linux", "_", "amd64">> >> >>,
      << << <<"cd34">>, <<"app", "_", "linux", "_", "amd64", ".", "tar", ".", "gz">> >> >>,
      << << <<"ab12">>, <<"app", "_", "darwin", "_", "arm64">> >> >>,
      << << <<"ab12">>, <<"app", ".", "exe", "_", "linux", "_", "amd64">> >>,
         << <<"zip2">>, <<"app", "_", "darwin", "_", "arm64", ".", "zip">> >> >> }

\* the world's answers to a download
DownloadEnvs ==
    { [do |-> TRUE,  tamper |-> FALSE, createTemp |-> TRUE,  copy |-> TRUE,  chmod |-> TRUE],
      [do |-> TRUE,  tamper |-> TRUE,  createTemp |-> TRUE,  copy |-> TRUE,  chmod |-> TRUE],
      [do |-> FALSE, tamper |-> FALSE, createTemp |-> TRUE,  copy |-> TRUE,  chmod |-> TRUE],
      [do |-> TRUE,  tamper |-> FALSE, createTemp |-> FALSE, copy |-> TRUE,  chmod |-> TRUE],
      [do |-> TRUE,  tamper |-> FALSE, createTemp |-> TRUE,  copy |-> FALSE, chmod |-> TRUE],
      [do |-> TRUE,  tamper |-> FALSE, createTemp |-> TRUE,  copy |-> TRUE,  chmod |-> FALSE] }

\* the world's answers to an extraction
ExtractEnvs ==
    { [createTemp |-> TRUE,  copy |-> TRUE,  chmod |-> TRUE],
      [createTemp |-> FALSE, copy |-> TRUE,  chmod |-> TRUE],
      [createTemp |-> TRUE,  copy |-> FALSE, chmod |-> TRUE],
      [createTemp |-> TRUE,  copy |-> TRUE,  chmod |-> FALSE] }

OldBinary == Binary("old")
InitFs(path) == [p \in {path} |-> OldBinary]
TempFiles(f, path) == DOMAIN f \ {path}

InitUpgrade ==
    /\ pc = "start"
    /\ executablePath \in ExecutablePaths
    /\ currentVersion \in VersionStrings \ {"3.0"}
    /\ curr = 0
    /\ latest = 0
    /\ releaseInfo = NilRelease
    /\ downloadInfo = NilInfo
    /\ cleanup = <<>>
    /\ checksumInfo = EmptyMap
    /\ valid = "none"
    /\ tempFile = <<>>
    /\ fs = InitFs(executablePath)
    /\ calls = <<>>
    /\ route = <<>>
    /\ created = {}
    /\ err = NoErr

Init ==
    /\ InitUpgrade
    /\ call = [op |-> "none"]

\* the deferred calls of Upgrade, last registered first: os.Remove(tempFile)
\* (upgrade.go:143) when registered, then cleanup() (upgrade.go:123-125)
RunDefers(f, tmp, clean) ==
    LET f1 == IF tmp # <<>> THEN Remove(f, tmp) ELSE f IN
    IF clean # <<>> THEN Remove(f1, clean) ELSE f1

\* Upgrade returns e: the deferred calls run
Return(e, f, tmp, clean) ==
    /\ pc' = "done"
    /\ err' = e
    /\ fs' = RunDefers(f, tmp, clean)
    /\ created' = created \cup TempFiles(f, executablePath)

\* upgrade.go:97-100
UpgradeParseCurrent ==
    /\ pc = "start"
    /\ IF ParseFails(currentVersion)
       THEN /\ Return(Err("InvalidVersion", <<>>), fs, <<>>, <<>>)
            /\ UNCHANGED curr
       ELSE /\ curr' = NewVersion(currentVersion)
            /\ pc' = "getRelease"
            /\ UNCHANGED <<err, fs, created>>
    /\ UNCHANGED <<executablePath, currentVersion, latest, releaseInfo, downloadInfo,
                   cleanup, checksumInfo, valid, tempFile, calls, route, call>>

\* upgrade.go:102-105: the release getter returns a release or an error
UpgradeGetLatestRelease ==
    /\ pc = "getRelease"
    /\ calls' = Append(calls, "GetLatestRelease")
    /\ \/ /\ Return(Err("GetLatestRelease", <<>>), fs, <<>>, <<>>)
          /\ UNCHANGED releaseInfo
       \/ /\ \E r \in Releases : releaseInfo' = r
          /\ pc' = "versionGate"
          /\ UNCHANGED <<err, fs, created>>
    /\ UNCHANGED <<executablePath, currentVersion, curr, latest, downloadInfo,
                   cleanup, checksumInfo, valid, tempFile, route, call>>

\* upgrade.go:107-114
UpgradeVersionGate ==
    /\ pc = "versionGate"
    /\ IF ParseFails(releaseInfo.TagName)
       THEN /\ Return(Err("InvalidVersion", <<>>), fs, <<>>, <<>>)
            /\ UNCHANGED latest
       ELSE /\ latest' = NewVersion(releaseInfo.TagName)
            /\ IF NoUpgradeNeeded(latest', curr)
               THEN Return(NoErr, fs, <<>>, <<>>)
               ELSE /\ pc' = "download"
                    /\ UNCHANGED <<err, fs, created>>
    /\ UNCHANGED <<executablePath, currentVersion, curr, releaseInfo, downloadInfo,
                   cleanup, checksumInfo, valid, tempFile, calls, route, call>>

\* upgrade.go:118-125
UpgradeDownloadAsset ==
    /\ pc = "download"
    /\ calls' = Append(calls, "DownloadAsset")
    /\ \E env \in DownloadEnvs :
         \E r \in { DownloadAsset([os |-> GOOS, arch |-> GOARCH,
                                    executablePath |-> executablePath],
                                   releaseInfo.Assets, env, fs) } :
            IF r.err # NoErr
            THEN /\ Return(r.err, r.fs, <<>>, <<>>)
                 /\ UNCHANGED <<downloadInfo, cleanup>>
            ELSE /\ downloadInfo' = r.info
                 /\ cleanup' = r.cleanup
                 /\ fs' = r.fs
                 /\ created' = created \cup TempFiles(r.fs, executablePath)
                 /\ pc' = "checksum"
                 /\ UNCHANGED err
    /\ UNCHANGED <<executablePath, currentVersion, curr, latest, releaseInfo,
                   checksumInfo, valid, tempFile, route, call>>

\* upgrade.go:128-131
UpgradeDownloadChecksum ==
    /\ pc = "checksum"
    /\ calls' = Append(calls, "Download")
    /\ \E do \in BOOLEAN, body \in ManifestBodies :
         \E r \in { Download(DefaultAssetSuffix, releaseInfo.Assets,
                              [do |-> do, manifest |-> body]) } :
            IF r.err # NoErr
            THEN /\ Return(r.err, fs, <<>>, cleanup)
                 /\ UNCHANGED checksumInfo
            ELSE /\ checksumInfo' = r.checksums
                 /\ pc' = "validate"
                 /\ UNCHANGED <<err, fs, created>>
    /\ UNCHANGED <<executablePath, currentVersion, curr, latest, releaseInfo,
                   downloadInfo, cleanup, valid, tempFile, route, call>>

\* the validation step with the result of the validator not acted on
UpgradeValidateIgnored ==
    /\ pc = "validate"
    /\ calls' = Append(calls, "IsCheckSumValid")
    /\ \E v \in { IsCheckSumValid(Base(executablePath), GOOS, GOARCH,
                                   checksumInfo, downloadInfo.Checksum) } :
          /\ valid' = IF v THEN "true" ELSE "false"
          /\ pc' = "unarchive"
          /\ UNCHANGED <<err, fs, created>>
    /\ UNCHANGED <<executablePath, currentVersion, curr, latest, releaseInfo,
                   downloadInfo, cleanup, checksumInfo, tempFile, route, call>>

\* upgrade.go:133-137
UpgradeValidate ==
    /\ pc = "validate"
    /\ calls' = Append(calls, "IsCheckSumValid")
    /\ \E v \in { IsCheckSumValid(Base(executablePath), GOOS, GOARCH,
                                   checksumInfo, downloadInfo.Checksum) } :
          /\ valid' = IF v THEN "true" ELSE "false"
          /\ IF ~v
             THEN Return(Err("ErrInvalidCheckSum", <<>>), fs, <<>>, cleanup)
             ELSE /\ pc' = "unarchive"
                  /\ UNCHANGED <<err, fs, created>>
    /\ UNCHANGED <<executablePath, currentVersion, curr, latest, releaseInfo,
                   downloadInfo, cleanup, checksumInfo, tempFile, route, call>>

\* upgrade.go:139-143
UpgradeUnArchive ==
    /\ pc = "unarchive"
    /\ calls' = Append(calls, "tryUnArchive")
    /\ \E env \in ExtractEnvs :
         \E x \in { tryUnArchive(Base(executablePath),
                                  downloadInfo.DownloadedBinaryFilePath, fs, env) } :
            /\ route' = x.route
            /\ IF x.err # NoErr
               THEN /\ Return(Err("failed to unarchive", x.err.detail), x.fs, <<>>, cleanup)
                    /\ UNCHANGED tempFile
               ELSE /\ tempFile' = x.path
                    /\ fs' = x.fs
                    /\ created' = created \cup TempFiles(x.fs, executablePath)
                    /\ pc' = "replace"
                    /\ UNCHANGED err
    /\ UNCHANGED <<executablePath, currentVersion, curr, latest, releaseInfo,
                   downloadInfo, cleanup, checksumInfo, valid, call>>

\* upgrade.go:145-149
UpgradeReplaceBinary ==
    /\ pc = "replace"
    /\ calls' = Append(calls, "replaceBinary")
    /\ \E ok \in BOOLEAN :
         \E r \in { replaceBinary(tempFile, executablePath, fs, ok) } :
            Return(r.err, r.fs, tempFile, cleanup)
    /\ UNCHANGED <<executablePath, currentVersion, curr, latest, releaseInfo,
                   downloadInfo, cleanup, checksumInfo, valid, tempFile, route, call>>

Next ==
    \/ UpgradeParseCurrent
    \/ UpgradeGetLatestRelease
    \/ UpgradeVersionGate
    \/ UpgradeDownloadAsset
    \/ UpgradeDownloadChecksum
    \/ UpgradeValidate
    \/ UpgradeUnArchive
    \/ UpgradeReplaceBinary

Spec == Init /\ [][Next]_vars

(* ------------------------------------------------------------------ *)
(* Properties of Upgrade (specification Spec)                           *)
(* ------------------------------------------------------------------ *)
Called(name) == \E i \in 1..Len(calls) : calls[i] = name
ExecutableReplaced == fs[executablePath] # OldBinary

\* C1: extraction and the rename onto the executable path happen only after
\* the validator returned true for the digest of the downloaded file; when it
\* returned false, Upgrade returns ErrInvalidCheckSum and neither extracts
\* nor replaces.
C1_ChecksumGate ==
    /\ (Called("tryUnArchive") \/ Called("replaceBinary") \/ ExecutableReplaced)
          => valid = "true"
    /\ pc \in {"unarchive", "replace"}
          => /\ downloadInfo.DownloadedBinaryFilePath \in DOMAIN fs
             /\ downloadInfo.Checksum =
                   Sha256Hex(fs[downloadInfo.DownloadedBinaryFilePath])
    /\ valid = "false"
          => /\ pc = "done"
             /\ err = Err("ErrInvalidCheckSum", <<>>)
             /\ ~Called("tryUnArchive")
             /\ ~Called("replaceBinary")
             /\ ~ExecutableReplaced

\* C1 witness: a downloaded asset whose digest the validator rejected
C1_Witness ==
    /\ pc = "done"
    /\ valid = "false"
    /\ created # {}
    /\ Called("IsCheckSumValid")

\* C2: an Upgrade that returns an error leaves the file at the executable
\* path with the content it had before the call.
C2_FailureLeavesExecutable ==
    (pc = "done" /\ err # NoErr)
        => /\ executablePath \in DOMAIN fs
           /\ fs[executablePath] = OldBinary

\* C2 witness: the rename itself failed
C2_Witness ==
    /\ pc = "done"
    /\ Called("replaceBinary")
    /\ err.kind = "failed to replace binary"

\* C3: when Upgrade returns an error, no temp file created during the call
\* is left.
C3_NoOrphanTempFiles ==
    (pc = "done" /\ err # NoErr) => TempFiles(fs, executablePath) = {}

\* C3 witness: a failed Upgrade that had created a temp file
C3_Witness ==
    /\ pc = "done"
    /\ err # NoErr
    /\ created # {}

\* C4: with latest <= current, Upgrade returns success after the release
\* fetch: no other collaborator is called, no temp file is created, the
\* executable is not modified.
C4_NoOpUpgrade ==
    (curr > 0 /\ latest > 0 /\ latest <= curr)
        => /\ pc = "done"
           /\ err = NoErr
           /\ calls = <<"GetLatestRelease">>
           /\ created = {}
           /\ fs = InitFs(executablePath)

\* C4 witness: the latest release is older than the running version
C4_Witness ==
    /\ pc = "done"
    /\ latest > 0
    /\ latest < curr

\* C5: when the asset selected is an archive, a successful Upgrade passes
\* the download through an extractor and installs the extracted binary, never
\* the archive file; an asset without archive suffix is installed as it is.
C5_ArchiveIsExtracted ==
    (pc = "done" /\ err = NoErr /\ Called("replaceBinary"))
        => IF downloadInfo.ArSuffix # <<>>
           THEN /\ route # <<>>
                /\ fs[executablePath].layers = <<>>
           ELSE /\ route = <<>>
                /\ fs[executablePath] = Binary("bin2")

(* ------------------------------------------------------------------ *)
(* The functions called on their own (specification SpecFn)             *)
(* ------------------------------------------------------------------ *)
\* file names and URLs: a stem followed by up to MaxExts extensions
Stems ==
    { <<"app", "_", "linux", "_", "amd64">>,
      <<"APP", "_", "linux", "_", "amd64">>,
      <<"app", "_", "darwin", "_", "arm64">> }
ExtWords == {"tar", "gz", "zip", "GZ", "txt"}

RECURSIVE ExtChains(_)
ExtChains(n) ==
    IF n = 0 THEN { <<>> }
    ELSE LET shorter == ExtChains(n - 1) IN
         shorter \cup { q \o <<".", w>> : q \in shorter, w \in ExtWords }

FileNames == { st \o ch : st \in Stems, ch \in ExtChains(MaxExts) }

\* the asset lists DownloadAsset is called with: every single name, and the
\* lists of the releases
FnAssetLists == { <<u>> : u \in FileNames } \cup SeqsUpTo(AssetURLs, MaxAssets)

Platforms == { [os |-> <<"linux">>, arch |-> <<"amd64">>],
               [os |-> <<"darwin">>, arch |-> <<"arm64">>] }

FnExecutablePath == <<"/", "usr", "/", "app">>

\* the maps IsCheckSumValid is called with
FnKeys == { <<"app", "_", "linux", "_", "amd64">>, <<"app", "_", "darwin", "_", "arm64">> }
FnSums == { <<"ab12">>, <<"AB12">>, <<"cd34">> }
FnMaps == UNION { [K -> FnSums] : K \in SUBSET FnKeys }

\* the files tryUnArchive is called on
FnArPaths == { TempDir \o <<"/", "app", "r1">> \o ch : ch \in ExtChains(MaxExts) }
FnEntries ==
    { Entry(<<"other">>, "reg", "other"),
      Entry(<<"app">>, "reg", "bin2"),
      Entry(<<"app", ".", "bak">>, "reg", "bak"),
      Entry(<<"app", "/">>, "dir", "empty"),
      Entry(<<"dist", "/", "app">>, "reg", "bin3") }
FnContents ==
    { Content(<<"gz", "tar">>, PublishedEntries, "tgz2"),
      Content(<<"tar">>, PublishedEntries, "tar2"),
      Content(<<"zip">>, PublishedEntries, "zip2"),
      Content(<<"gz">>, <<>>, "gz2"),
      Binary("bin2") }
OkEnv == [createTemp |-> TRUE, copy |-> TRUE, chmod |-> TRUE]
EmptyFs == [p \in {} |-> OldBinary]

InitFn ==
    /\ pc = "idle"
    /\ executablePath = FnExecutablePath
    /\ currentVersion = "1.0"
    /\ curr = 0
    /\ latest = 0
    /\ releaseInfo = NilRelease
    /\ downloadInfo = NilInfo
    /\ cleanup = <<>>
    /\ checksumInfo = EmptyMap
    /\ valid = "none"
    /\ tempFile = <<>>
    /\ fs = InitFs(FnExecutablePath)
    /\ calls = <<>>
    /\ route = <<>>
    /\ created = {}
    /\ err = NoErr
    /\ call = [op |-> "none"]

upgradeVars == <<pc, executablePath, currentVersion, curr, latest, releaseInfo,
                 downloadInfo, cleanup, checksumInfo, valid, tempFile, fs, calls,
                 route, created, err>>

\* a call of downloader.DownloadAsset
FnDownloadAsset ==
    /\ call.op = "none"
    /\ \E assets \in FnAssetLists, pf \in Platforms, do \in BOOLEAN :
         call' = [op |-> "DownloadAsset", assets |-> assets, os |-> pf.os,
                  arch |-> pf.arch, fs |-> fs,
                  out |-> DownloadAsset(
                            [os |-> pf.os, arch |-> pf.arch,
                             executablePath |-> FnExecutablePath],
                            assets,
                            [do |-> do, tamper |-> FALSE, createTemp |-> TRUE,
                             copy |-> TRUE, chmod |-> TRUE],
                            fs)]
    /\ UNCHANGED upgradeVars

\* a call of downloadCheckSum on a manifest of one line, with what the asset
\* matcher makes of the same file name
FnDownloadCheckSum ==
    /\ call.op = "none"
    /\ \E filename \in FileNames, sum \in FnSums :
         call' = [op |-> "downloadCheckSum", filename |-> filename, sum |-> sum,
                  out |-> downloadCheckSum(<<"checksums", ".", "txt">>,
                             [do |-> TRUE, manifest |-> << <<sum, filename>> >>]),
                  matcher |-> StripLoop(ToLower(filename), 1).u]
    /\ UNCHANGED upgradeVars

\* a call of validator.IsCheckSumValid
FnIsCheckSumValid ==
    /\ call.op = "none"
    /\ \E binary \in { <<"app">>, <<"tool">> }, pf \in Platforms,
          m \in FnMaps, digest \in FnSums :
         call' = [op |-> "IsCheckSumValid", binary |-> binary, os |-> pf.os,
                  arch |-> pf.arch, checksums |-> m, digest |-> digest,
                  out |-> IsCheckSumValid(binary, pf.os, pf.arch, m, digest)]
    /\ UNCHANGED upgradeVars

\* a call of tryUnArchive on a file of the temp directory
FnTryUnArchive ==
    /\ call.op = "none"
    /\ \E arPath \in FnArPaths, c \in FnContents, env \in ExtractEnvs :
         call' = [op |-> "tryUnArchive", arPath |-> arPath, prefix |-> <<"app">>,
                  out |-> tryUnArchive(<<"app">>, arPath,
                                       [p \in {arPath} |-> c], env)]
    /\ UNCHANGED upgradeVars

\* a call of unTar on a tar stream, every system call succeeding
FnUnTar ==
    /\ call.op = "none"
    /\ \E entries \in SeqsUpTo(FnEntries, MaxEntries) :
         call' = [op |-> "unTar", entries |-> entries, prefix |-> <<"app">>,
                  out |-> unTar(<<"app">>, Content(<<"tar">>, entries, "tar"),
                                EmptyFs, OkEnv)]
    /\ UNCHANGED upgradeVars

\* a call of unZip on a zip file, every system call succeeding
FnUnZip ==
    /\ call.op = "none"
    /\ \E entries \in SeqsUpTo(FnEntries, MaxEntries) :
         call' = [op |-> "unZip", entries |-> entries, prefix |-> <<"app">>,
                  out |-> unZip(<<"app">>, Content(<<"zip">>, entries, "zip"),
                                EmptyFs, OkEnv)]
    /\ UNCHANGED upgradeVars

NextFn ==
    \/ FnDownloadAsset
    \/ FnDownloadCheckSum
    \/ FnIsCheckSumValid
    \/ FnTryUnArchive
    \/ FnUnTar
    \/ FnUnZip

SpecFn == InitFn /\ [][NextFn]_vars

(* ------------------------------------------------------------------ *)
(* Properties of the functions (specification SpecFn)                   *)
(* ------------------------------------------------------------------ *)
\* a string with at most one archive suffix removed: the first of .tar.gz,
\* .tar, .zip, .gz that it ends with
StrippedOnce(u) ==
    IF HasSuffix(u, <<".", "tar", ".", "gz">>)
    THEN [ar |-> <<".", "tar", ".", "gz">>, u |-> SubSeq(u, 1, Len(u) - 4)]
    ELSE IF HasSuffix(u, <<".", "tar">>)
    THEN [ar |-> <<".", "tar">>, u |-> SubSeq(u, 1, Len(u) - 2)]
    ELSE IF HasSuffix(u, <<".", "zip">>)
    THEN [ar |-> <<".", "zip">>, u |-> SubSeq(u, 1, Len(u) - 2)]
    ELSE IF HasSuffix(u, <<".", "gz">>)
    THEN [ar |-> <<".", "gz">>, u |-> SubSeq(u, 1, Len(u) - 2)]
    ELSE [ar |-> <<>>, u |-> u]

Min(S) == CHOOSE i \in S : \A j \in S : i <= j

\* C6: IsCheckSumValid returns true exactly when the map holds the key
\* <binary>_<os>_<arch> and the checksum stored under it equals the digest
\* compared without regard to case; a missing key gives false.
C6_ValidIffEqualFold ==
    call.op = "IsCheckSumValid"
        => LET key == call.binary \o <<"_">> \o call.os \o <<"_">> \o call.arch IN
           call.out = ( /\ key \in DOMAIN call.checksums
                        /\ ToLower(call.checksums[key]) = ToLower(call.digest) )

\* C7: DownloadAsset downloads the first asset of the list whose URL,
\* lower-cased and with at most one archive suffix removed, ends with
\* <os>_<arch>; it reports the suffix removed and the platform suffix; when no
\* asset matches it fails with ErrNoAsset naming os and arch and requests
\* nothing.
C7_FirstMatchingAsset ==
    call.op = "DownloadAsset"
        => LET platform == call.os \o <<"_">> \o call.arch
               M == { i \in 1..Len(call.assets) :
                        HasSuffix(StrippedOnce(ToLower(call.assets[i])).u, platform) }
           IN IF M = {}
              THEN /\ call.out.err = Err("ErrNoAsset", call.os \o call.arch)
                   /\ call.out.requests = <<>>
                   /\ call.out.fs = call.fs
                   /\ call.out.info = NilInfo
              ELSE /\ call.out.requests = << call.assets[Min(M)] >>
                   /\ call.out.err = NoErr
                        => /\ call.out.info.ArSuffix =
                                 StrippedOnce(ToLower(call.assets[Min(M)])).ar
                           /\ call.out.info.PlatformSuffix = platform
                           /\ call.out.info.DownloadedBinaryFilePath \in DOMAIN call.out.fs

\* C7 witness: two assets match, the first is a .tar.gz and is the one taken
C7_Witness ==
    /\ call.op = "DownloadAsset"
    /\ Len(call.assets) = 2
    /\ HasSuffix(call.assets[2], <<"linux", "_", "amd64">>)
    /\ call.out.err = NoErr
    /\ call.out.requests = << call.assets[1] >>
    /\ call.out.info.ArSuffix = <<".", "tar", ".", "gz">>

\* C8: the key the manifest parser stores for a line is the lower-cased file
\* name with exactly one archive suffix removed, the same string the asset
\* matcher derives from that name.
C8_ManifestKeyStrippedOnce ==
    call.op = "downloadCheckSum"
        => /\ DOMAIN call.out.checksums = { StrippedOnce(ToLower(call.filename)).u }
           /\ DOMAIN call.out.checksums = { call.matcher }

\* C9: tryUnArchive dispatches on the extension of the path: .tar.gz to
\* gzip-then-tar, .tar to tar, .zip to zip, .gz alone to gzip only; a path
\* without extension is returned unchanged; any other extension is an
\* unsupported-type error.
C9_DispatchByExtension ==
    call.op = "tryUnArchive"
        => LET p == call.arPath
               r == call.out
           IN IF HasSuffix(p, <<".", "tar", ".", "gz">>)
              THEN r.route = <<"unTarGz", "unTar">>
              ELSE IF HasSuffix(p, <<".", "tar">>) THEN r.route = <<"unTar">>
              ELSE IF HasSuffix(p, <<".", "zip">>) THEN r.route = <<"unZip">>
              ELSE IF HasSuffix(p, <<".", "gz">>) THEN r.route = <<"unGz">>
              ELSE IF Ext(p) = <<>>
              THEN r.path = p /\ r.err = NoErr /\ r.route = <<>>
              ELSE r.err.kind = "unsupported file type" /\ r.route = <<>>

\* C10: tar and zip extraction extract exactly one entry, the first regular
\* file in archive order whose base name starts with the prefix; when no
\* entry matches, the error is a not-found error naming the prefix.
C10_FirstRegularMatch ==
    call.op \in {"unTar", "unZip"}
        => LET M == { i \in 1..Len(call.entries) :
                        /\ call.entries[i].Typeflag = "reg"
                        /\ HasPrefix(Base(call.entries[i].Name), call.prefix) }
           IN IF M = {}
              THEN /\ call.out.err.kind \in
                         {"file not found in archive", "no file found with prefix"}
                   /\ call.out.err.detail = call.prefix
              ELSE /\ call.out.err = NoErr
                   /\ call.out.picked = Min(M)
                   /\ DOMAIN call.out.fs = { call.out.path }
                   /\ call.out.fs[call.out.path] = Binary(call.entries[Min(M)].data)

====
